---- MODULE Spec2Model ----
(***************************************************************************)
(* The DSP hardware interface of Source/Core/Core/HW/DSP.cpp: the control  *)
(* register and its interrupt line, the Audio DMA engine, the ARAM DMA     *)
(* engine, the register map, and the scheduler events they use.            *)
(***************************************************************************)
EXTENDS Integers, Naturals, Sequences, FiniteSets, TLC

\* ------------------------------------------------------------------ bounds
\* The scheduler holds at most this many pending events.
MaxEvents == 2
\* At most this many private ARAM buffers are ever allocated.
MaxPages == 2
\* At most this many ARAM DMA transfers are triggered between two resets.
MaxTransfers == 2

\* ------------------------------------------------------- program constants
\* DSPInterruptType (bit positions in DSP_CONTROL) and DSP_CONTROL_MASK.
INT_DSP == 128
INT_ARAM == 32
INT_AID == 8
DSP_CONTROL_MASK == 3079

\* Register offsets.
DSP_MAIL_TO_DSP_HI == 20480
DSP_MAIL_TO_DSP_LO == 20482
DSP_MAIL_FROM_DSP_HI == 20484
DSP_MAIL_FROM_DSP_LO == 20486
DSP_CONTROL == 20490
AR_INFO == 20498
AR_MODE == 20502
AR_REFRESH == 20506
AR_DMA_MMADDR_H == 20512
AR_DMA_MMADDR_L == 20514
AR_DMA_ARADDR_H == 20516
AR_DMA_ARADDR_L == 20518
AR_DMA_CNT_H == 20520
AR_DMA_CNT_L == 20522
AUDIO_DMA_START_HI == 20528
AUDIO_DMA_START_LO == 20530
AUDIO_DMA_CONTROL_LEN == 20534
AUDIO_DMA_BLOCKS_LEFT == 20538

\* Write masks of RegisterMMIO.
WMASK_NONE == 0
WMASK_AR_INFO == 127
WMASK_AR_REFRESH == 2047
WMASK_AR_HI_RESTRICT == 1023
WMASK_AR_CNT_DIR_BIT == 32768
WMASK_AUDIO_HI_RESTRICT_GCN == 1023
WMASK_AUDIO_HI_RESTRICT_WII == 8191
WMASK_LO_ALIGN_32BIT == 65504

\* The 64 MiB mirror mask of the ARAM DMA (0x3ffffff).
ARAM_DMA_MIRROR_MASK == 67108863
\* ARAM_SIZE / ARAM_MASK of the GameCube, and the Wii's EXRAM size / mask.
ARAM_SIZE == 16777216
ARAM_MASK == 16777215
EXRAM_SIZE == 67108864
EXRAM_MASK == 67108863
\* Memory::m_pEXRAM, as a buffer identity; 0 is nullptr, larger ones are private pages.
m_pEXRAM == 1
\* Memory::GetRamMask()
RAM_MASK == 33554431

DSP_MAIL_SLICE == 72
AID_EVENT_DELAY == 200
ARAM_TICKS_PER_32_BYTES == 246

U16 == 65536

\* ------------------------------------------------------------ bit helpers
\* a & b, bit by bit.
RECURSIVE AndBits(_, _)
AndBits(a, b) ==
    IF a = 0 \/ b = 0 THEN 0
    ELSE (a % 2) * (b % 2) + 2 * AndBits(a \div 2, b \div 2)

\* a & b of two hexadecimal digits, tabulated.
NibbleAnd == [a \in 0..15 |-> [b \in 0..15 |-> AndBits(a, b)]]

\* a & b, digit by digit.
RECURSIVE BitAnd(_, _)
BitAnd(a, b) ==
    IF a = 0 \/ b = 0 THEN 0
    ELSE NibbleAnd[a % 16][b % 16] + 16 * BitAnd(a \div 16, b \div 16)

\* a | b
BitOr(a, b) == a + b - BitAnd(a, b)

\* ~m within 16 bits.
Not16(m) == (U16 - 1) - m

\* MMIO::Utils::HighPart / LowPart of a u32.
HighPart(x) == x \div U16
LowPart(x) == x % U16
SetHighPart(x, h) == h * U16 + (x % U16)
SetLowPart(x, l) == (x \div U16) * U16 + l

\* ------------------------------------------------- UDSPControl bit fields
\* A bit field is <<the value of its lowest bit, 2^width>>.
DSPReset == <<1, 2>>
DSPAssertInt == <<2, 2>>
DSPHalt == <<4, 2>>
AID == <<8, 2>>
AID_mask == <<16, 2>>
ARAM == <<32, 2>>
ARAM_mask == <<64, 2>>
DSP == <<128, 2>>
DSP_mask == <<256, 2>>
DMAState == <<512, 2>>
DSPInitCode == <<1024, 2>>
DSPInit == <<2048, 2>>
pad == <<4096, 16>>

\* Reading and assigning a bit field of a register value.
Get(hex, f) == (hex \div f[1]) % f[2]
Set(hex, f, v) == hex - Get(hex, f) * f[1] + (v % f[2]) * f[1]

\* UAudioDMAControl: NumBlocks : 15, Enable : 1.
AudioEnable(hex) == hex \div 32768
AudioNumBlocks(hex) == hex % 32768

\* ------------------------------------------------------------------ state
VARIABLES
    dsp_control,     \* state.dsp_control.Hex
    audio_dma,       \* state.audio_dma
    aram_dma,        \* state.aram_dma (Cnt as its two bit fields)
    aram_info,       \* state.aram_info.Hex
    aram_mode,       \* state.aram_mode
    aram_refresh,    \* state.aram_refresh
    aram,            \* state.aram: wii_mode, size, mask
    dsp_slice,       \* state.dsp_slice
    is_lle,          \* state.is_lle
    mail_to_dsp,     \* the DSP engine's CPU->DSP mailbox halves, as last written
    events,          \* CoreTiming's pending events of this device, in scheduling order
    interrupt,       \* ProcessorInterface's INT_CAUSE_DSP line
    xfer,            \* the 8-byte chunk copies the last Do_ARAM_DMA performed
    mem,             \* the words written so far to MEM1, EXRAM, the private pages, HSP
    pages,           \* Common::AllocateMemoryPages: the buffers allocated, those still live
    saved,           \* the savestate DoState last wrote
    snapshot,        \* the device's own state as it was when that savestate was written
    watch,           \* the Audio DMA arming under observation: its N, source, ticks since
    transfers,       \* ARAM DMA transfers triggered since the last reset
    last             \* the operation that produced this state, with its inputs and result

vars ==
    << dsp_control, audio_dma, aram_dma, aram_info, aram_mode, aram_refresh, aram,
       dsp_slice, is_lle, mail_to_dsp, events, interrupt, xfer, mem, pages,
       saved, snapshot, watch, transfers, last >>

\* The device and its collaborators as one value, so that handlers compose.
World ==
    [ dsp_control |-> dsp_control, audio_dma |-> audio_dma, aram_dma |-> aram_dma,
      aram_info |-> aram_info, aram_mode |-> aram_mode, aram_refresh |-> aram_refresh,
      aram |-> aram, dsp_slice |-> dsp_slice, is_lle |-> is_lle,
      mail_to_dsp |-> mail_to_dsp, events |-> events, interrupt |-> interrupt,
      xfer |-> xfer, mem |-> mem, pages |-> pages ]

Apply(w) ==
    /\ dsp_control' = w.dsp_control
    /\ audio_dma' = w.audio_dma
    /\ aram_dma' = w.aram_dma
    /\ aram_info' = w.aram_info
    /\ aram_mode' = w.aram_mode
    /\ aram_refresh' = w.aram_refresh
    /\ aram' = w.aram
    /\ dsp_slice' = w.dsp_slice
    /\ is_lle' = w.is_lle
    /\ mail_to_dsp' = w.mail_to_dsp
    /\ events' = w.events
    /\ interrupt' = w.interrupt
    /\ xfer' = w.xfer
    /\ mem' = w.mem
    /\ pages' = w.pages

\* ------------------------------------------------------------- scheduler
\* CoreTiming::ScheduleEvent: the event is due `cycles` from now.
ScheduleEvent(w, cycles, cb, userdata) ==
    [w EXCEPT !.events = Append(@, [cb |-> cb, userdata |-> userdata, due |-> cycles])]

\* ------------------------------------------------------------ interrupts
\* Mutant: the enable bits are not consulted.
IntsSet_IgnoresEnable(hex) ==
    BitAnd(hex, INT_DSP + INT_ARAM + INT_AID) # 0

\* (Hex >> 1) & Hex & (INT_DSP | INT_ARAM | INT_AID) != 0
IntsSet(hex) ==
    BitAnd(BitAnd(hex \div 2, hex), INT_DSP + INT_ARAM + INT_AID) # 0

UpdateInterrupts(w) ==
    [w EXCEPT !.interrupt = IntsSet(w.dsp_control)]

GenerateDSPInterrupt(w, DSPIntType) ==
    UpdateInterrupts(
        [w EXCEPT !.dsp_control =
            BitOr(@, BitAnd(DSPIntType, INT_DSP + INT_ARAM + INT_AID))])

\* Mutant: the completion raises the interrupt but leaves DMAState set.
CompleteARAM_KeepsBusy(w) ==
    GenerateDSPInterrupt(w, INT_ARAM)

CompleteARAM(w) ==
    GenerateDSPInterrupt([w EXCEPT !.dsp_control = Set(@, DMAState, 0)], INT_ARAM)

\* Mutant: the request sets the pending bit at once, on the requesting thread.
GenerateDSPInterruptFromDSPEmu_Direct(w, type, cycles_into_future) ==
    GenerateDSPInterrupt(w, type)

\* GenerateDSPInterruptFromDSPEmu: only schedules the event.
GenerateDSPInterruptFromDSPEmu(w, type, cycles_into_future) ==
    ScheduleEvent(w, cycles_into_future, "DSPint", type)

\* Mutant: the reset bit leaves the Audio DMA control word alone.
ResetAudioDMA_Never(control, val) == control

\* --------------------------------------------------------- control write
\* if (val & 1) AudioDMAControl.Hex = 0;
ResetAudioDMA(control, val) ==
    IF BitAnd(val, 1) # 0 THEN 0 ELSE control

\* Mutant: the pending bit is written through.
Acknowledge_WriteThrough(c, tmpControl, f) ==
    Set(c, f, Get(tmpControl, f))

\* if (tmpControl.F) dsp_control.F = 0;
Acknowledge(c, tmpControl, f) ==
    IF Get(tmpControl, f) = 1 THEN Set(c, f, 0) ELSE c

\* dsp_control.F = tmpControl.F;
Copy(c, tmpControl, f) ==
    Set(c, f, Get(tmpControl, f))

\* Mutant: the handler also assigns the DMA-state bit from the written value.
UpdateControl_CopiesDMAState(c, tmpControl) ==
    Copy(Copy(Acknowledge(Acknowledge(Acknowledge(
        Copy(Copy(Copy(
            Copy(Copy(Copy(Copy(Copy(c, tmpControl, DSPReset), tmpControl, DSPAssertInt),
                           tmpControl, DSPHalt), tmpControl, DSPInitCode), tmpControl, DSPInit),
            tmpControl, AID_mask), tmpControl, ARAM_mask), tmpControl, DSP_mask),
        tmpControl, AID), tmpControl, ARAM), tmpControl, DSP),
        tmpControl, pad), tmpControl, DMAState)

\* The field updates of the DSP_CONTROL write handler, in the handler's order.
UpdateControl(c, tmpControl) ==
    Copy(Acknowledge(Acknowledge(Acknowledge(
        Copy(Copy(Copy(
            Copy(Copy(Copy(Copy(Copy(c, tmpControl, DSPReset), tmpControl, DSPAssertInt),
                           tmpControl, DSPHalt), tmpControl, DSPInitCode), tmpControl, DSPInit),
            tmpControl, AID_mask), tmpControl, ARAM_mask), tmpControl, DSP_mask),
        tmpControl, AID), tmpControl, ARAM), tmpControl, DSP),
        tmpControl, pad)

\* The DSP_CONTROL write handler; emu is what DSP_WriteControlRegister(val) returns.
WriteControl(w, val, emu) ==
    UpdateInterrupts(
        [w EXCEPT
            !.audio_dma.AudioDMAControl = ResetAudioDMA(@, val),
            !.dsp_control =
                UpdateControl(@, BitOr(BitAnd(val, Not16(DSP_CONTROL_MASK)),
                                       BitAnd(emu, DSP_CONTROL_MASK)))])

\* Mutant: the read handler hides the padding bits.
ReadControl_HidesPad(w, emu) ==
    BitOr(BitAnd(w.dsp_control, 4095 - DSP_CONTROL_MASK), BitAnd(emu, DSP_CONTROL_MASK))

\* The DSP_CONTROL read handler; emu is what DSP_ReadControlRegister() returns.
ReadControl(w, emu) ==
    BitOr(BitAnd(w.dsp_control, Not16(DSP_CONTROL_MASK)), BitAnd(emu, DSP_CONTROL_MASK))

\* Mutant: a zero write mask is applied like any other mask.
DirectlyMapped_NoInvalid(cur, val, wmask) == BitAnd(val, wmask)

\* Mutant: the written value is stored without its write mask.
DirectlyMapped_Unmasked(cur, val, wmask) == val

\* The write handler of a directly mapped register: DirectWrite<u16>(ptr, wmask),
\* or InvalidWrite<u16>() when wmask is WMASK_NONE. cur is the register's value.
DirectlyMapped(cur, val, wmask) ==
    IF wmask # WMASK_NONE THEN BitAnd(val, wmask) ELSE cur

\* HighPart(&Cnt.Hex): the dir bit above the high 15 bits of count.
CntHighPart(cnt) == cnt.dir * 32768 + HighPart(cnt.count)

\* Mutant: every write with Enable set arms the transfer.
WriteAudioDMAControl_AlwaysLoad(w, val) ==
    LET w1 == [w EXCEPT !.audio_dma.AudioDMAControl = val]
    IN  IF AudioEnable(val) = 1
        THEN ScheduleEvent(
                 [w1 EXCEPT !.audio_dma.current_source_address = w.audio_dma.SourceAddress,
                            !.audio_dma.remaining_blocks_count = AudioNumBlocks(val)],
                 AID_EVENT_DELAY, "DSPint", INT_AID)
        ELSE w1

\* -------------------------------------------------------------- Audio DMA
\* The AUDIO_DMA_CONTROL_LEN write handler.
WriteAudioDMAControl(w, val) ==
    LET already_enabled == AudioEnable(w.audio_dma.AudioDMAControl) = 1
        w1 == [w EXCEPT !.audio_dma.AudioDMAControl = val]
    IN  IF ~already_enabled /\ AudioEnable(val) = 1
        THEN ScheduleEvent(
                 [w1 EXCEPT !.audio_dma.current_source_address = w.audio_dma.SourceAddress,
                            !.audio_dma.remaining_blocks_count = AudioNumBlocks(val)],
                 AID_EVENT_DELAY, "DSPint", INT_AID)
        ELSE w1

\* Mutant: the read returns the raw counter.
ReadAudioDMABlocksLeft_Raw(w) ==
    w.audio_dma.remaining_blocks_count

\* The AUDIO_DMA_BLOCKS_LEFT read handler.
ReadAudioDMABlocksLeft(w) ==
    IF w.audio_dma.remaining_blocks_count > 0
    THEN w.audio_dma.remaining_blocks_count - 1
    ELSE 0

\* if (remaining_blocks_count != 0) { remaining_blocks_count--; current_source_address += 32; }
ConsumeBlock(w) ==
    IF w.audio_dma.remaining_blocks_count # 0
    THEN [w EXCEPT !.audio_dma.remaining_blocks_count = @ - 1,
                   !.audio_dma.current_source_address = @ + 32]
    ELSE w

\* Mutant: every tick reloads, whatever the counter.
ReloadIfExhausted_Always(w) ==
    GenerateDSPInterrupt(
        [w EXCEPT !.audio_dma.current_source_address = w.audio_dma.SourceAddress,
                  !.audio_dma.remaining_blocks_count =
                      AudioNumBlocks(w.audio_dma.AudioDMAControl)],
        INT_AID)

\* if (remaining_blocks_count == 0) { reload; GenerateDSPInterrupt(INT_AID); }
ReloadIfExhausted(w) ==
    IF w.audio_dma.remaining_blocks_count = 0
    THEN GenerateDSPInterrupt(
             [w EXCEPT !.audio_dma.current_source_address = w.audio_dma.SourceAddress,
                       !.audio_dma.remaining_blocks_count =
                           AudioNumBlocks(w.audio_dma.AudioDMAControl)],
             INT_AID)
    ELSE w

\* Mutant: the reload test is an else branch, so the reload comes one tick late.
UpdateAudioDMA_ElseReload(w) ==
    IF AudioEnable(w.audio_dma.AudioDMAControl) = 1
    THEN (IF w.audio_dma.remaining_blocks_count # 0
          THEN ConsumeBlock(w)
          ELSE ReloadIfExhausted(w))
    ELSE w

\* UpdateAudioDMA: one 4 kHz tick.
UpdateAudioDMA(w) ==
    IF AudioEnable(w.audio_dma.AudioDMAControl) = 1
    THEN ReloadIfExhausted(ConsumeBlock(w))
    ELSE w

\* ----------------------------------------------------------------- memory
\* The byte a store holds at an address nothing has written yet: main memory
\* (MEM1 and EXRAM) holds a pattern, freshly allocated pages and HSP hold zero.
Fill(store, a) == IF store \in {"mram", "exram"} THEN (a + 1) % 256 ELSE 0

\* A store is kept as the 8-byte words written so far, by their aligned address.
Word(store, m, base) ==
    IF base \in DOMAIN m THEN m[base] ELSE [k \in 1..8 |-> Fill(store, base + k - 1)]

\* The byte at address a of a store.
Byte(store, m, a) == Word(store, m, a - (a % 8))[(a % 8) + 1]

\* The store after the byte b is written at address a.
Poke(store, m, a, b) ==
    ((a - (a % 8)) :> [Word(store, m, a - (a % 8)) EXCEPT ![(a % 8) + 1] = b]) @@ m

\* Memory::Read_U64, Common::swap64(&aram.ptr[..]): the eight bytes from a on.
Read_U64(store, m, a) ==
    IF a % 8 = 0 THEN Word(store, m, a) ELSE [k \in 1..8 |-> Byte(store, m, a + k - 1)]

RECURSIVE PokeFrom(_, _, _, _, _)
PokeFrom(store, m, a, v, k) ==
    IF k > 8 THEN m ELSE PokeFrom(store, Poke(store, m, a + k - 1, v[k]), a, v, k + 1)

\* Memory::Write_U64, Write_U64_Swap: the eight bytes v written from a on.
Write_U64(store, m, a, v) ==
    IF a % 8 = 0 THEN (a :> v) @@ m ELSE PokeFrom(store, m, a, v, 1)

\* The store behind aram.ptr: the console's EXRAM, or the private pages.
Buffer(ar) == IF ar.ptr = m_pEXRAM THEN "exram" ELSE "aram"

\* One 8-byte copy of Do_ARAM_DMA applied to memory: the byte order in the target
\* is that of the source (Read_U64 with swap64, Write_U64_Swap).
StoreChunk(mm, buf, e) ==
    LET At(s) == IF s = "aram" THEN buf ELSE s
    IN  IF e.to = "mram"
        THEN [mm EXCEPT !.mram =
                 Write_U64("mram", @, e.mm, Read_U64(At(e.from), mm[At(e.from)], e.ar))]
        ELSE [mm EXCEPT ![At(e.to)] =
                 Write_U64(At(e.to), @, e.ar, Read_U64("mram", mm.mram, e.mm))]

RECURSIVE StoreLog(_, _, _)
StoreLog(mm, buf, log) ==
    IF log = << >> THEN mm ELSE StoreLog(StoreChunk(mm, buf, Head(log)), buf, Tail(log))

\* ReadARAM(address)
ReadARAM(w, address) ==
    IF w.aram.wii_mode /\ BitAnd(address, 268435456) = 0
    THEN Byte("mram", w.mem.mram, BitAnd(address, RAM_MASK))
    ELSE Byte(Buffer(w.aram), w.mem[Buffer(w.aram)], BitAnd(address, w.aram.mask))

\* WriteARAM(value, address)
WriteARAM(w, value, address) ==
    [w EXCEPT !.mem[Buffer(w.aram)] =
        Poke(Buffer(w.aram), @, BitAnd(address, w.aram.mask), value)]

\* --------------------------------------------------------------- ARAM DMA
\* Mutant: tag 4 copies like the other tags.
Chunk_NoMirror(w, d, store) ==
    << [from |-> IF d.Cnt.dir = 1 THEN store ELSE "mram",
        to |-> IF d.Cnt.dir = 1 THEN "mram" ELSE store,
        mirror |-> FALSE,
        ar |-> IF store = "aram" THEN BitAnd(d.ARAddr, w.aram.mask) ELSE d.ARAddr,
        mm |-> d.MMAddr] >>

\* One 8-byte chunk of the transfer loop, as the copies it performs.
Chunk(w, d, store) ==
    IF d.Cnt.dir = 1
    THEN << [from |-> store, to |-> "mram", mirror |-> FALSE,
             ar |-> IF store = "aram" THEN BitAnd(d.ARAddr, w.aram.mask) ELSE d.ARAddr,
             mm |-> d.MMAddr] >>
    ELSE IF store = "hsp"
    THEN << [from |-> "mram", to |-> "hsp", mirror |-> FALSE, ar |-> d.ARAddr,
             mm |-> d.MMAddr] >>
    ELSE (IF BitAnd(w.aram_info, 15) = 4 /\ d.ARAddr < 4194304
          THEN << [from |-> "mram", to |-> "aram", mirror |-> TRUE,
                   ar |-> BitAnd(d.ARAddr + 4194304, w.aram.mask), mm |-> d.MMAddr] >>
          ELSE << >>)
         \o << [from |-> "mram", to |-> "aram", mirror |-> FALSE,
                ar |-> BitAnd(d.ARAddr, w.aram.mask), mm |-> d.MMAddr] >>

\* while (Cnt.count) { copy; MMAddr += 8; ARAddr += 8; Cnt.count -= 8; }
RECURSIVE TransferLoop(_, _, _, _)
TransferLoop(w, d, store, log) ==
    IF d.Cnt.count = 0
    THEN [dma |-> d, log |-> log]
    ELSE TransferLoop(w,
                      [d EXCEPT !.MMAddr = @ + 8, !.ARAddr = @ + 8,
                                !.Cnt.count = IF @ >= 8 THEN @ - 8 ELSE (@ - 8) + 2147483647 + 1],
                      store, log \o Chunk(w, d, store))

\* The transfer of Do_ARAM_DMA, once both addresses are masked to the 64 MiB window.
Transfer(w, d1) ==
    IF d1.ARAddr < w.aram.size
    THEN TransferLoop(w, d1, "aram", << >>)
    ELSE IF ~w.aram.wii_mode
    THEN TransferLoop(w, d1, "hsp", << >>)
    ELSE [dma |-> d1, log |-> << >>]

\* Mutant: the addresses enter the loop unmasked.
Mirror_None(d) == d

\* ARAddr &= 0x3ffffff; MMAddr &= 0x3ffffff;
Mirror(d) ==
    [d EXCEPT !.ARAddr = BitAnd(@, ARAM_DMA_MIRROR_MASK),
              !.MMAddr = BitAnd(@, ARAM_DMA_MIRROR_MASK)]

\* int ticksToTransfer = (Cnt.count / 32) * 246;
TicksToTransfer(count) == (count \div 32) * ARAM_TICKS_PER_32_BYTES

Do_ARAM_DMA(w) ==
    LET Done(w1, r) == [w1 EXCEPT !.aram_dma = r.dma, !.xfer = r.log,
                                   !.mem = StoreLog(@, Buffer(w.aram), r.log)]
    IN  Done(ScheduleEvent([w EXCEPT !.dsp_control = Set(@, DMAState, 1)],
                           TicksToTransfer(w.aram_dma.Cnt.count), "ARAMint", 0),
             Transfer(w, Mirror(w.aram_dma)))

\* Mutant: the low-half write replaces the whole word, dropping the staged high half.
WriteARDMACntL_DropsHigh(w, val) ==
    Do_ARAM_DMA([w EXCEPT !.aram_dma.Cnt =
                     [dir |-> 0, count |-> BitAnd(val, WMASK_LO_ALIGN_32BIT)]])

\* The AR_DMA_CNT_L write handler.
WriteARDMACntL(w, val) ==
    Do_ARAM_DMA([w EXCEPT !.aram_dma.Cnt.count =
                     SetLowPart(@, BitAnd(val, WMASK_LO_ALIGN_32BIT))])

\* DirectWrite<u16>(HighPart(&Cnt.Hex), mask)
WriteARDMACntH(w, val) ==
    LET Store(v) == [w EXCEPT !.aram_dma.Cnt =
                        [dir |-> v \div 32768, count |-> SetHighPart(@.count, v % 32768)]]
    IN  Store(DirectlyMapped(CntHighPart(w.aram_dma.Cnt), val,
                             WMASK_AR_HI_RESTRICT + WMASK_AR_CNT_DIR_BIT))

\* ------------------------------------------------------------ register map
\* The write handler registered at a 16-bit offset; emu is what the DSP engine
\* returns from DSP_WriteControlRegister. An offset with no handler, or with
\* InvalidWrite, discards the value.
Write16(w, addr, val, emu) ==
    CASE addr = AR_MODE ->
            [w EXCEPT !.aram_mode = DirectlyMapped(@, val, WMASK_NONE)]
      [] addr = AR_INFO ->
            [w EXCEPT !.aram_info = DirectlyMapped(@, val, WMASK_AR_INFO)]
      [] addr = AR_REFRESH ->
            [w EXCEPT !.aram_refresh = DirectlyMapped(@, val, WMASK_AR_REFRESH)]
      [] addr = AR_DMA_MMADDR_H ->
            [w EXCEPT !.aram_dma.MMAddr =
                SetHighPart(@, DirectlyMapped(HighPart(@), val, WMASK_AR_HI_RESTRICT))]
      [] addr = AR_DMA_MMADDR_L ->
            [w EXCEPT !.aram_dma.MMAddr =
                SetLowPart(@, DirectlyMapped(LowPart(@), val, WMASK_LO_ALIGN_32BIT))]
      [] addr = AR_DMA_ARADDR_H ->
            [w EXCEPT !.aram_dma.ARAddr =
                SetHighPart(@, DirectlyMapped(HighPart(@), val, WMASK_AR_HI_RESTRICT))]
      [] addr = AR_DMA_ARADDR_L ->
            [w EXCEPT !.aram_dma.ARAddr =
                SetLowPart(@, DirectlyMapped(LowPart(@), val, WMASK_LO_ALIGN_32BIT))]
      [] addr = AR_DMA_CNT_H -> WriteARDMACntH(w, val)
      [] addr = AUDIO_DMA_START_LO ->
            [w EXCEPT !.audio_dma.SourceAddress =
                SetLowPart(@, DirectlyMapped(LowPart(@), val, WMASK_LO_ALIGN_32BIT))]
      [] addr = DSP_MAIL_TO_DSP_HI -> [w EXCEPT !.mail_to_dsp.hi = val]
      [] addr = DSP_MAIL_TO_DSP_LO -> [w EXCEPT !.mail_to_dsp.lo = val]
      [] addr = DSP_MAIL_FROM_DSP_HI -> w
      [] addr = DSP_MAIL_FROM_DSP_LO -> w
      [] addr = DSP_CONTROL -> WriteControl(w, val, emu)
      [] addr = AR_DMA_CNT_L -> WriteARDMACntL(w, val)
      [] addr = AUDIO_DMA_START_HI ->
            [w EXCEPT !.audio_dma.SourceAddress =
                SetHighPart(@, BitAnd(val, IF w.aram.wii_mode
                                           THEN WMASK_AUDIO_HI_RESTRICT_WII
                                           ELSE WMASK_AUDIO_HI_RESTRICT_GCN))]
      [] addr = AUDIO_DMA_CONTROL_LEN -> WriteAudioDMAControl(w, val)
      [] addr = AUDIO_DMA_BLOCKS_LEFT -> w
      [] OTHER -> w

\* The mailbox-high read handlers give the LLE engine a slice of DSP_MAIL_SLICE cycles.
MailSlice(w) ==
    IF w.dsp_slice > DSP_MAIL_SLICE /\ w.is_lle
    THEN [w EXCEPT !.dsp_slice = @ - DSP_MAIL_SLICE]
    ELSE w

\* The read handler registered at a 16-bit offset: the value read and the state
\* after it; emu is what the DSP engine returns (mailbox half, control register).
Read16(w, addr, emu) ==
    CASE addr = AR_MODE -> [ret |-> w.aram_mode, w |-> w]
      [] addr = AR_INFO -> [ret |-> w.aram_info, w |-> w]
      [] addr = AR_REFRESH -> [ret |-> w.aram_refresh, w |-> w]
      [] addr = AR_DMA_MMADDR_H -> [ret |-> HighPart(w.aram_dma.MMAddr), w |-> w]
      [] addr = AR_DMA_MMADDR_L -> [ret |-> LowPart(w.aram_dma.MMAddr), w |-> w]
      [] addr = AR_DMA_ARADDR_H -> [ret |-> HighPart(w.aram_dma.ARAddr), w |-> w]
      [] addr = AR_DMA_ARADDR_L -> [ret |-> LowPart(w.aram_dma.ARAddr), w |-> w]
      [] addr = AR_DMA_CNT_H -> [ret |-> CntHighPart(w.aram_dma.Cnt), w |-> w]
      [] addr = AR_DMA_CNT_L -> [ret |-> LowPart(w.aram_dma.Cnt.count), w |-> w]
      [] addr = AUDIO_DMA_START_LO -> [ret |-> LowPart(w.audio_dma.SourceAddress), w |-> w]
      [] addr = AUDIO_DMA_START_HI -> [ret |-> HighPart(w.audio_dma.SourceAddress), w |-> w]
      [] addr = DSP_MAIL_TO_DSP_HI -> [ret |-> emu, w |-> MailSlice(w)]
      [] addr = DSP_MAIL_TO_DSP_LO -> [ret |-> emu, w |-> w]
      [] addr = DSP_MAIL_FROM_DSP_HI -> [ret |-> emu, w |-> MailSlice(w)]
      [] addr = DSP_MAIL_FROM_DSP_LO -> [ret |-> emu, w |-> w]
      [] addr = DSP_CONTROL -> [ret |-> ReadControl(w, emu), w |-> w]
      [] addr = AUDIO_DMA_CONTROL_LEN -> [ret |-> w.audio_dma.AudioDMAControl, w |-> w]
      [] addr = AUDIO_DMA_BLOCKS_LEFT -> [ret |-> ReadAudioDMABlocksLeft(w), w |-> w]

\* WriteToSmaller<u32>: the high half to offset i, then the low half to i + 2.
Write32(w, i, hi, lo, emu) ==
    Write16(Write16(w, i, hi, emu), i + 2, lo, emu)

\* ReadToSmaller<u32>: the half at i is the high half, the half at i + 2 the low.
Read32(w, i, emu_hi, emu_lo) ==
    LET Low(h, l) == [hi |-> h.ret, lo |-> l.ret, w |-> l.w]
        High(h) == Low(h, Read16(h.w, i + 2, emu_lo))
    IN  High(Read16(w, i, emu_hi))

\* --------------------------------------------------------------- lifecycle
\* Common::AllocateMemoryPages: a buffer no earlier allocation returned.
AllocateMemoryPages(pg) ==
    [ptr |-> m_pEXRAM + pg.made + 1,
     pages |-> [made |-> pg.made + 1, live |-> pg.live \cup {m_pEXRAM + pg.made + 1}]]

\* Common::FreeMemoryPages
FreeMemoryPages(pg, ptr) == [pg EXCEPT !.live = @ \ {ptr}]

\* The first half of Reinit: bWii selects the backing store; mem.aram is the
\* contents of the private pages aram.ptr points to, if any.
SelectBacking(w, bWii) ==
    [w EXCEPT !.aram = IF bWii
                       THEN [wii_mode |-> TRUE, size |-> EXRAM_SIZE, mask |-> EXRAM_MASK,
                             ptr |-> m_pEXRAM]
                       ELSE [wii_mode |-> FALSE, size |-> ARAM_SIZE, mask |-> ARAM_MASK,
                             ptr |-> AllocateMemoryPages(w.pages).ptr],
              !.pages = IF bWii THEN @ ELSE AllocateMemoryPages(@).pages,
              !.mem.aram = << >>]

\* Mutant: the reset leaves the two DMA blocks as they are.
Reinit_KeepsDMA(w, bWii, lle) ==
    [SelectBacking(w, bWii) EXCEPT !.is_lle = lle,
                                   !.dsp_control = Set(0, DSPHalt, 1),
                                   !.aram_info = 0,
                                   !.aram_mode = 1,
                                   !.aram_refresh = 156]

\* Reinit(hle): bWii selects the backing store; the registers are reset.
Reinit(w, bWii, lle) ==
    [SelectBacking(w, bWii) EXCEPT
              !.is_lle = lle,
              !.audio_dma = [current_source_address |-> 0, remaining_blocks_count |-> 0,
                             SourceAddress |-> 0, AudioDMAControl |-> 0],
              !.aram_dma = [MMAddr |-> 0, ARAddr |-> 0, Cnt |-> [count |-> 0, dir |-> 0]],
              !.dsp_control = Set(0, DSPHalt, 1),
              !.aram_info = 0,
              !.aram_mode = 1,
              !.aram_refresh = 156]

\* Shutdown: the private pages behind aram.ptr are freed, EXRAM is not.
Shutdown(w) ==
    IF ~w.aram.wii_mode
    THEN [w EXCEPT !.pages = FreeMemoryPages(@, w.aram.ptr), !.aram.ptr = 0]
    ELSE w

\* The p.Do.. calls of DoState: p is the PointerWrap, a mode and the stream of
\* values. In write mode each field is appended to the stream; in read mode each
\* field is taken from the head of the stream. n is 1 when the buffer goes first,
\* else 0. The last value is the DSP engine's own state.
DoFields(w, p, n) ==
    LET Rest(st) == [p EXCEPT !.stream = SubSeq(st, n + 9, Len(st))]
        Read(st) ==
            [w |-> [w EXCEPT !.mem = IF n = 1
                                     THEN [@ EXCEPT ![Buffer(w.aram)] = st[1]]
                                     ELSE @,
                             !.dsp_control = st[n + 1],
                             !.audio_dma = st[n + 2],
                             !.aram_dma = st[n + 3],
                             !.aram_info = st[n + 4],
                             !.aram_mode = st[n + 5],
                             !.aram_refresh = st[n + 6],
                             !.dsp_slice = st[n + 7],
                             !.mail_to_dsp = st[n + 8]],
             p |-> Rest(st)]
    IN  IF p.mode = "write"
        THEN [w |-> w,
              p |-> [p EXCEPT !.stream =
                        @ \o (IF n = 1 THEN << w.mem[Buffer(w.aram)] >> ELSE << >>)
                          \o << w.dsp_control, w.audio_dma, w.aram_dma, w.aram_info,
                                w.aram_mode, w.aram_refresh, w.dsp_slice,
                                w.mail_to_dsp >>]]
        ELSE Read(p.stream)

\* Mutant: the backing buffer is never part of the save state.
DoState_NoArray(w, p) == DoFields(w, p, 0)

\* DoState(p): if (!wii_mode) p.DoArray(aram.ptr, aram.size); then the fields.
DoState(w, p) == DoFields(w, p, IF ~w.aram.wii_mode THEN 1 ELSE 0)

\* UpdateDSPSlice(cycles)
UpdateDSPSlice(w, cycles) ==
    IF w.is_lle
    THEN [w EXCEPT !.dsp_slice = (@ % 6) + cycles]
    ELSE w

\* --------------------------------------------------------- initial state
Blank ==
    [ dsp_control |-> 0,
      audio_dma |-> [current_source_address |-> 0, remaining_blocks_count |-> 0,
                     SourceAddress |-> 0, AudioDMAControl |-> 0],
      aram_dma |-> [MMAddr |-> 0, ARAddr |-> 0, Cnt |-> [count |-> 0, dir |-> 0]],
      aram_info |-> 0, aram_mode |-> 0, aram_refresh |-> 0,
      aram |-> [wii_mode |-> FALSE, size |-> ARAM_SIZE, mask |-> ARAM_MASK, ptr |-> 0],
      dsp_slice |-> 0, is_lle |-> FALSE, mail_to_dsp |-> [hi |-> 0, lo |-> 0],
      events |-> << >>, interrupt |-> FALSE, xfer |-> << >>,
      mem |-> [mram |-> << >>, exram |-> << >>, aram |-> << >>, hsp |-> << >>],
      pages |-> [made |-> 0, live |-> {}] ]

NoWatch == [n |-> 0, src |-> 0, ticks |-> 0]

Op(op, addr, val, lo, ret, retlo) ==
    [op |-> op, addr |-> addr, val |-> val, lo |-> lo, ret |-> ret, retlo |-> retlo]

\* Init(hle): Reinit, then the two event types are registered.
InitWith(Wii, Lle) ==
    /\ \E bWii \in Wii, lle \in Lle :
          /\ dsp_control = Reinit(Blank, bWii, lle).dsp_control
          /\ audio_dma = Reinit(Blank, bWii, lle).audio_dma
          /\ aram_dma = Reinit(Blank, bWii, lle).aram_dma
          /\ aram_info = Reinit(Blank, bWii, lle).aram_info
          /\ aram_mode = Reinit(Blank, bWii, lle).aram_mode
          /\ aram_refresh = Reinit(Blank, bWii, lle).aram_refresh
          /\ aram = Reinit(Blank, bWii, lle).aram
          /\ is_lle = Reinit(Blank, bWii, lle).is_lle
          /\ mem = Reinit(Blank, bWii, lle).mem
          /\ pages = Reinit(Blank, bWii, lle).pages
    /\ dsp_slice = 0
    /\ mail_to_dsp = [hi |-> 0, lo |-> 0]
    /\ events = << >>
    /\ interrupt = FALSE
    /\ xfer = << >>
    /\ saved = [wii_mode |-> FALSE, stream |-> << >>]
    /\ snapshot = Blank
    /\ watch = NoWatch
    /\ transfers = 0
    /\ last = Op("init", 0, 0, 0, 0, 0)

\* ----------------------------------------------------------------- actions
\* The arming a register write leaves under observation: a 0 -> 1 edge of Enable
\* with NumBlocks > 0 starts one, any other write ends it.
WatchAfterWrite(w0, w1) ==
    IF /\ AudioEnable(w0.audio_dma.AudioDMAControl) = 0
       /\ AudioEnable(w1.audio_dma.AudioDMAControl) = 1
       /\ AudioNumBlocks(w1.audio_dma.AudioDMAControl) > 0
    THEN [n |-> AudioNumBlocks(w1.audio_dma.AudioDMAControl),
          src |-> w1.audio_dma.SourceAddress, ticks |-> 0]
    ELSE NoWatch

\* The ARAM completions pending in the scheduler.
Completions(ev) == Len(SelectSeq(ev, LAMBDA e : e.cb = "ARAMint"))

\* The transfers a register write has triggered.
Triggered(w0, w1) == Completions(w1.events) - Completions(w0.events)

\* A 16-bit register write by the CPU.
CpuWrite16(WS, E) ==
    \E p \in WS, emu \in E :
        \E w \in {Write16(World, p[1], p[2], emu)} :
            /\ Len(w.events) <= MaxEvents
            /\ transfers + Triggered(World, w) <= MaxTransfers
            /\ Apply(w)
            /\ watch' = WatchAfterWrite(World, w)
            /\ transfers' = transfers + Triggered(World, w)
            /\ UNCHANGED << saved, snapshot >>
            /\ last' = Op("write16", p[1], p[2], 0, 0, 0)

\* A 32-bit register write by the CPU (p = <<offset, high half, low half>>).
CpuWrite32(WS, E) ==
    \E p \in WS, emu \in E :
        \E w \in {Write32(World, p[1], p[2], p[3], emu)} :
            /\ Len(w.events) <= MaxEvents
            /\ transfers + Triggered(World, w) <= MaxTransfers
            /\ Apply(w)
            /\ watch' = WatchAfterWrite(World, w)
            /\ transfers' = transfers + Triggered(World, w)
            /\ UNCHANGED << saved, snapshot >>
            /\ last' = Op("write32", p[1], p[2], p[3], 0, 0)

\* A 16-bit register read by the CPU.
CpuRead16(RS, E) ==
    \E addr \in RS, emu \in E :
        \E r \in {Read16(World, addr, emu)} :
            /\ Apply(r.w)
            /\ watch' = watch
            /\ UNCHANGED << transfers, saved, snapshot >>
            /\ last' = Op("read16", addr, 0, 0, r.ret, 0)

\* A 32-bit register read by the CPU.
CpuRead32(RS, E) ==
    \E addr \in RS, emu_hi \in E, emu_lo \in E :
        \E r \in {Read32(World, addr, emu_hi, emu_lo)} :
            /\ Apply(r.w)
            /\ watch' = watch
            /\ UNCHANGED << transfers, saved, snapshot >>
            /\ last' = Op("read32", addr, 0, 0, r.hi, r.lo)

\* SystemTimers' 4 kHz audio tick.
Tick ==
    /\ \E w \in {UpdateAudioDMA(World)} : Apply(w)
    /\ watch' = IF watch.n > 0 /\ watch.ticks < watch.n
                THEN [watch EXCEPT !.ticks = @ + 1]
                ELSE NoWatch
    /\ UNCHANGED << transfers, saved, snapshot >>
    /\ last' = Op("tick", 0, 0, 0, 0, 0)

\* The index of the event CoreTiming fires next: the earliest, the first scheduled among equals.
NextEvent(ev) ==
    CHOOSE i \in 1..Len(ev) :
        /\ \A j \in 1..Len(ev) : ev[i].due <= ev[j].due
        /\ \A j \in 1..(i - 1) : ev[j].due > ev[i].due

\* ev without its i-th event, time advanced by `elapsed`.
Remaining(ev, i, elapsed) ==
    [k \in 1..(Len(ev) - 1) |->
        LET e == IF k < i THEN ev[k] ELSE ev[k + 1]
        IN  [e EXCEPT !.due = @ - elapsed]]

\* CoreTiming advances to the next event and runs its callback.
FireEvent ==
    /\ events # << >>
    /\ \E i \in {NextEvent(events)} :
         \E w \in {IF events[i].cb = "ARAMint"
                    THEN CompleteARAM(
                             [World EXCEPT !.events = Remaining(events, i, events[i].due)])
                    ELSE GenerateDSPInterrupt(
                             [World EXCEPT !.events = Remaining(events, i, events[i].due)],
                             events[i].userdata)} :
            /\ Apply(w)
            /\ last' = Op(events[i].cb, 0, events[i].userdata, 0, 0, 0)
    /\ UNCHANGED << watch, transfers, saved, snapshot >>

\* The DSP engine requests an interrupt, possibly from its own thread.
DSPEmuInterrupt(Types, Cycles) ==
    \E type \in Types, cycles \in Cycles :
        /\ Len(events) < MaxEvents
        /\ \E w \in {GenerateDSPInterruptFromDSPEmu(World, type, cycles)} : Apply(w)
        /\ UNCHANGED << watch, transfers, saved, snapshot >>
        /\ last' = Op("emu_request", 0, type, cycles, 0, 0)

\* An emulated hard reset.
DoReinit(Wii, Lle) ==
    \E bWii \in Wii, lle \in Lle :
        /\ bWii \/ pages.made < MaxPages
        /\ \E w \in {Reinit(World, bWii, lle)} : Apply(w)
        /\ watch' = NoWatch
        /\ transfers' = 0
        /\ UNCHANGED << saved, snapshot >>
        /\ last' = Op("reinit", 0, 0, 0, 0, 0)

\* Init(hle) after a shutdown.
DoInit(Wii, Lle) ==
    \E bWii \in Wii, lle \in Lle :
        /\ last.op = "shutdown"
        /\ bWii \/ pages.made < MaxPages
        /\ \E w \in {Reinit(World, bWii, lle)} : Apply(w)
        /\ watch' = NoWatch
        /\ transfers' = 0
        /\ UNCHANGED << saved, snapshot >>
        /\ last' = Op("init", 0, 0, 0, 0, 0)

\* Shutdown of a running device.
DoShutdown ==
    /\ last.op # "shutdown"
    /\ \E w \in {Shutdown(World)} : Apply(w)
    /\ UNCHANGED << watch, transfers, saved, snapshot >>
    /\ last' = Op("shutdown", 0, 0, 0, 0, 0)

\* A save state is written: DoState in write mode on an empty stream.
DoSave ==
    /\ \E r \in {DoState(World, [mode |-> "write", stream |-> << >>])} :
          /\ Apply(r.w)
          /\ saved' = [wii_mode |-> aram.wii_mode, stream |-> r.p.stream]
    /\ snapshot' = [World EXCEPT !.events = << >>, !.interrupt = FALSE, !.xfer = << >>]
    /\ UNCHANGED << watch, transfers >>
    /\ last' = Op("save", 0, 0, 0, 0, 0)

\* The save state is loaded: DoState in read mode, on a console of the mode the
\* state was saved on (a save state belongs to one game).
DoLoad ==
    /\ saved.stream # << >>
    /\ saved.wii_mode = aram.wii_mode
    /\ \E r \in {DoState(World, [mode |-> "read", stream |-> saved.stream])} :
          /\ Apply(r.w)
          /\ last' = Op("load", 0, 0, 0, Len(r.p.stream), 0)
    /\ UNCHANGED << watch, transfers, saved, snapshot >>

\* The DSP engine reads a byte of aux-RAM.
DoReadARAM(Addresses) ==
    \E address \in Addresses :
        /\ Apply(World)
        /\ UNCHANGED << watch, transfers, saved, snapshot >>
        /\ last' = Op("ReadARAM", address, 0, 0, ReadARAM(World, address), 0)

\* The DSP engine writes a byte of aux-RAM.
DoWriteARAM(Values, Addresses) ==
    \E value \in Values, address \in Addresses :
        /\ \E w \in {WriteARAM(World, value, address)} : Apply(w)
        /\ UNCHANGED << watch, transfers, saved, snapshot >>
        /\ last' = Op("WriteARAM", address, value, 0, 0, 0)

\* SystemTimers gives the DSP engine a few more cycles.
DoUpdateDSPSlice(Cycles) ==
    \E cycles \in Cycles :
        /\ \E w \in {UpdateDSPSlice(World, cycles)} : Apply(w)
        /\ UNCHANGED << watch, transfers, saved, snapshot >>
        /\ last' = Op("slice", 0, cycles, 0, 0, 0)

\* ------------------------------------------ the interrupt sources together
\* Control writes: enable all, acknowledge all, enable one, acknowledge and enable
\* one, nothing.
InterruptControlWrites ==
    { <<DSP_CONTROL, v>> : v \in {0, 336, 168, 16, 96} }

NextInterrupt ==
    \/ CpuWrite16(InterruptControlWrites, {4})
    \/ CpuWrite16({<<AUDIO_DMA_CONTROL_LEN, 32770>>, <<AUDIO_DMA_CONTROL_LEN, 0>>}, {0})
    \/ CpuWrite16({<<AR_DMA_CNT_L, 0>>}, {0})
    \/ Tick
    \/ FireEvent
    \/ DSPEmuInterrupt({INT_DSP}, {0})
    \/ DoReinit({FALSE}, {FALSE})

Init == InitWith({FALSE}, {FALSE})

SpecInterrupt == Init /\ [][NextInterrupt]_vars

\* ------------------------------------------------- the control register
\* Every combination of the three enable and the three pending bits (bits 3 to 8),
\* and values with the reset bit, the DMA-state bit, padding bits, and every bit set.
AllControlWrites ==
    { <<DSP_CONTROL, 8 * k>> : k \in 0..63 }
      \cup { <<DSP_CONTROL, v>> : v \in {1, 512, 4096, 65535} }

NextControl ==
    \/ CpuWrite16(AllControlWrites, {DSP_CONTROL_MASK})
    \/ FireEvent
    \/ DSPEmuInterrupt({INT_DSP, INT_ARAM, INT_AID}, {0})

SpecControl == Init /\ [][NextControl]_vars

\* ----------------------------------------------------------- the Audio DMA
\* Source 0x1000; arm with 3, 1 and 0 blocks, set the length to 2 while enabled
\* and while disabled, disable.
AudioWrites ==
    { <<AUDIO_DMA_START_LO, 4096>> }
      \cup { <<AUDIO_DMA_CONTROL_LEN, v>> : v \in {0, 2, 32768, 32769, 32770, 32771} }

\* Control writes: reset, acknowledge AID with AID enabled, enable AID only.
AudioControlWrites == { <<DSP_CONTROL, v>> : v \in {1, 24, 16} }

NextAudio ==
    \/ CpuWrite16(AudioWrites, {0})
    \/ CpuWrite16(AudioControlWrites, {4})
    \/ CpuRead16({AUDIO_DMA_BLOCKS_LEFT}, {0})
    \/ Tick
    \/ FireEvent
    \/ DoReinit({FALSE}, {FALSE})

SpecAudio == Init /\ [][NextAudio]_vars

\* ------------------------------------------------------------ the ARAM DMA
\* Main-memory address 0x2000; aux-RAM address 0x1000000 (beyond the GameCube's
\* ARAM) and 0x3ffffe0 (the top of the 64 MiB window).
AramAddressWrites ==
    { <<AR_DMA_MMADDR_H, 0, 8192>>,
      <<AR_DMA_ARADDR_H, 256, 0>>, <<AR_DMA_ARADDR_H, 1023, 65504>> }

\* The direction bit, and the descriptor tag 4.
AramSetupWrites ==
    { <<AR_DMA_CNT_H, 32768>>, <<AR_INFO, 4>> }

\* Triggers: 16 and 32 written to count-low.
AramTriggerWrites == { <<AR_DMA_CNT_L, v>> : v \in {16, 32} }

NextAram ==
    \/ CpuWrite32(AramAddressWrites, {0})
    \/ CpuWrite16(AramSetupWrites, {0})
    \/ CpuWrite16(AramTriggerWrites, {0})

InitAram == InitWith({FALSE, TRUE}, {FALSE})

SpecAram == InitAram /\ [][NextAram]_vars

\* -------------------------------------------------- the ARAM DMA completion
\* Triggers of 0 and 32 bytes; the ARAM interrupt enabled and acknowledged;
\* DSP-engine requests 246 cycles ahead.
NextCompletion ==
    \/ CpuWrite16({ <<AR_DMA_CNT_L, v>> : v \in {0, 32} }, {0})
    \/ CpuWrite16({ <<DSP_CONTROL, 96>> }, {4})
    \/ DSPEmuInterrupt({INT_DSP}, {ARAM_TICKS_PER_32_BYTES})
    \/ FireEvent
    \/ DoReinit({FALSE}, {FALSE})

SpecCompletion == Init /\ [][NextCompletion]_vars

\* CoreTiming runs every scheduled event once its time has come.
FairSpecCompletion == SpecCompletion /\ WF_vars(FireEvent)

\* ------------------------------------------------------- the register map
\* 32-bit writes: the DSP-to-CPU mailbox, the control register's word, the mode
\* register's word, an ARAM DMA address, the ARAM count (a trigger that sets the
\* direction bit as well), and the blocks-left word.
MMIOWrites32 ==
    { <<DSP_MAIL_FROM_DSP_HI, 43981, 4660>>, <<20488, 65535, 336>>,
      <<20500, 65535, 65535>>, <<AR_DMA_MMADDR_H, 65535, 65535>>,
      <<AR_DMA_CNT_H, 64512, 95>>, <<20536, 65535, 65535>> }

\* 16-bit writes: the write-protected registers, a masked register, an offset
\* with no register.
MMIOWrites16 ==
    { <<AR_MODE, 65535>>, <<AR_MODE, 0>>, <<DSP_MAIL_FROM_DSP_HI, 65535>>,
      <<DSP_MAIL_FROM_DSP_LO, 65535>>, <<AUDIO_DMA_BLOCKS_LEFT, 65535>>,
      <<AUDIO_DMA_BLOCKS_LEFT, 0>>, <<AR_INFO, 65535>>, <<20532, 65535>> }

MMIOReads32 ==
    { DSP_MAIL_FROM_DSP_HI, AR_DMA_MMADDR_H, AR_DMA_CNT_H }

MMIOReads16 ==
    { DSP_MAIL_FROM_DSP_HI, DSP_MAIL_FROM_DSP_LO, AR_MODE, AUDIO_DMA_BLOCKS_LEFT }

NextMMIO ==
    \/ CpuWrite32(MMIOWrites32, {4})
    \/ CpuWrite16(MMIOWrites16, {4})
    \/ CpuRead32(MMIOReads32, {4660})
    \/ CpuRead16(MMIOReads16, {4660})
    \/ FireEvent
    \/ DoUpdateDSPSlice({78})

InitMMIO == InitWith({FALSE}, {TRUE})

SpecMMIO == InitMMIO /\ [][NextMMIO]_vars

\* ================================================================ claims
\* Some source has both its enable bit and its pending bit set.
AnyEnabledPending(hex) ==
    \E p \in { <<AID, AID_mask>>, <<ARAM, ARAM_mask>>, <<DSP, DSP_mask>> } :
        Get(hex, p[1]) = 1 /\ Get(hex, p[2]) = 1

IsWrite16(op, addr) == op.op = "write16" /\ op.addr = addr

\* A step that is a control-register write, an ARAM completion, a firing of the
\* generate-interrupt event, or an audio tick that reloads.
C1_Mutating ==
    \/ IsWrite16(last', DSP_CONTROL)
    \/ last'.op \in {"ARAMint", "DSPint"}
    \/ /\ last'.op = "tick"
       /\ AudioEnable(audio_dma.AudioDMAControl) = 1
       /\ audio_dma.remaining_blocks_count <= 1

\* C1: immediately after every control-register write, ARAM completion, reloading
\* audio tick and generate-interrupt event, the interrupt line is asserted iff some
\* source of DSP, ARAM, AID has both its enable and its pending bit set.
C1_InterruptLine ==
    [][C1_Mutating => (interrupt' = AnyEnabledPending(dsp_control'))]_vars

\* The line is asserted after an ARAM completion by the ARAM source alone, while
\* AID is pending but not enabled.
C1_Witness ==
    /\ last.op = "ARAMint"
    /\ interrupt
    /\ Get(dsp_control, AID) = 1 /\ Get(dsp_control, AID_mask) = 0
    /\ Get(dsp_control, DSP) = 0

\* C2: a control-register write with value v clears each pending bit whose bit of v
\* is set and keeps each pending bit whose bit of v is clear; each enable bit
\* afterwards equals its bit of v.
C2_ControlWrite ==
    [][IsWrite16(last', DSP_CONTROL) =>
          /\ \A f \in {AID, ARAM, DSP} :
                Get(dsp_control', f) =
                    IF Get(last'.val, f) = 1 THEN 0 ELSE Get(dsp_control, f)
          /\ \A m \in {AID_mask, ARAM_mask, DSP_mask} :
                Get(dsp_control', m) = Get(last'.val, m)]_vars

\* A write that acknowledges AID only and enables nothing: ARAM and DSP stay pending.
C2_Witness ==
    /\ IsWrite16(last, DSP_CONTROL) /\ last.val = 8
    /\ Get(dsp_control, AID) = 0
    /\ Get(dsp_control, ARAM) = 1 /\ Get(dsp_control, DSP) = 1
    /\ Get(dsp_control, AID_mask) = 0

IsAudioTick(op) ==
    op.op = "tick" /\ AudioEnable(audio_dma.AudioDMAControl) = 1

\* Between an arming with N > 0 blocks and the first register write after it: after
\* t < N ticks N - t blocks remain and the cursor is 32 t past the source address;
\* after tick N the counter and the cursor are reloaded and AID is pending.
C3_Countdown ==
    watch.n > 0 =>
        /\ watch.ticks < watch.n =>
              /\ audio_dma.remaining_blocks_count = watch.n - watch.ticks
              /\ audio_dma.current_source_address = watch.src + 32 * watch.ticks
        /\ watch.ticks = watch.n =>
              /\ audio_dma.remaining_blocks_count = watch.n
              /\ audio_dma.current_source_address = watch.src
              /\ Get(dsp_control, AID) = 1

\* A tick of an enabled transfer with more than one block left only decrements the
\* counter and advances the cursor by 32; the tick that exhausts the counter
\* reloads both and sets AID pending.
C3_TickStep ==
    IsAudioTick(last') =>
        IF audio_dma.remaining_blocks_count > 1
        THEN /\ audio_dma'.remaining_blocks_count = audio_dma.remaining_blocks_count - 1
             /\ audio_dma'.current_source_address = audio_dma.current_source_address + 32
             /\ dsp_control' = dsp_control
        ELSE /\ audio_dma'.remaining_blocks_count =
                    AudioNumBlocks(audio_dma.AudioDMAControl)
             /\ audio_dma'.current_source_address = audio_dma.SourceAddress
             /\ Get(dsp_control', AID) = 1

\* C3: after an Audio DMA is armed with N > 0 blocks, exactly N ticks pass before the
\* cursor and the counter are reloaded: ticks 1..N-1 only decrement and advance, the
\* reload is on tick N, and every reload sets the AID pending bit.
C3_AudioReload ==
    [](C3_Countdown) /\ [][C3_TickStep]_vars

\* Tick 3 of an arming with three blocks has just reloaded.
C3_Witness ==
    /\ last.op = "tick"
    /\ watch.n = 3 /\ watch.ticks = 3
    /\ audio_dma.remaining_blocks_count = 3

IsRead16(op, addr) == op.op = "read16" /\ op.addr = addr

\* A read at 0x503A returns max(remaining - 1, 0) and changes nothing.
C4_ReadStep ==
    IsRead16(last', AUDIO_DMA_BLOCKS_LEFT) =>
        /\ last'.ret = IF audio_dma.remaining_blocks_count >= 1
                       THEN audio_dma.remaining_blocks_count - 1
                       ELSE 0
        /\ World' = World

\* Armed with N = 3: the reads after 0, 1, 2 ticks show 2, 1, 0, and after the
\* third tick 2 again, with AID pending.
C4_Scenario ==
    (watch.n = 3 /\ IsRead16(last, AUDIO_DMA_BLOCKS_LEFT)) =>
        /\ last.ret = << 2, 1, 0, 2 >>[watch.ticks + 1]
        /\ watch.ticks = 3 => Get(dsp_control, AID) = 1

\* C4: a read of the blocks-left register returns max(remaining - 1, 0), counting the
\* block in flight as consumed, and changes no state; armed with N = 3 the reads
\* show 2, 1, 0 and, after the third tick, 2 with AID pending.
C4_BlocksLeftRead ==
    [][C4_ReadStep]_vars /\ [](C4_Scenario)

\* The read after the second tick of an arming with three blocks shows 0 although
\* one block remains.
C4_Witness ==
    /\ IsRead16(last, AUDIO_DMA_BLOCKS_LEFT) /\ last.ret = 0
    /\ watch.n = 3 /\ watch.ticks = 2
    /\ audio_dma.remaining_blocks_count = 1

\* The event an arming schedules.
AIDEvent == [cb |-> "DSPint", userdata |-> INT_AID, due |-> 200]

C5_WriteStep ==
    IsWrite16(last', AUDIO_DMA_CONTROL_LEN) =>
        /\ audio_dma'.AudioDMAControl = last'.val
        /\ IF AudioEnable(audio_dma.AudioDMAControl) = 0 /\ last'.val >= 32768
           THEN /\ audio_dma'.current_source_address = audio_dma.SourceAddress
                /\ audio_dma'.remaining_blocks_count = last'.val - 32768
                /\ events' = Append(events, AIDEvent)
           ELSE /\ audio_dma'.current_source_address = audio_dma.current_source_address
                /\ audio_dma'.remaining_blocks_count = audio_dma.remaining_blocks_count
                /\ events' = events

\* The stored block count is the one the next exhaustion reload takes.
C5_ReloadStep ==
    (IsAudioTick(last') /\ audio_dma.remaining_blocks_count <= 1) =>
        audio_dma'.remaining_blocks_count = audio_dma.AudioDMAControl % 32768

\* C5: the cursor and the remaining count are loaded only by a control/length write
\* that changes Enable from 0 to 1, which also schedules one AID event 200 cycles
\* ahead; a write while Enable is already 1 stores the control word only, its
\* block count taking effect at the next exhaustion reload.
C5_ArmingEdge ==
    [][C5_WriteStep /\ C5_ReloadStep]_vars

\* Enable was already set when a block count of 2 was written one tick into a
\* transfer of three blocks: the cursor and the counter are mid-transfer still.
C5_Witness ==
    /\ IsWrite16(last, AUDIO_DMA_CONTROL_LEN) /\ last.val = 32770
    /\ audio_dma.remaining_blocks_count = 2
    /\ audio_dma.current_source_address = audio_dma.SourceAddress + 32

\* The count a write of val to count-low leaves in the count field before the
\* transfer runs: the high half kept, the low half 32-byte aligned.
TriggerCount(count, val) == (count \div 65536) * 65536 + (val - (val % 32))

\* The 8-byte copies of the last transfer, the tag-4 mirror copies apart.
Copies(log) == Len(SelectSeq(log, LAMBDA e : ~e.mirror))

Window == ARAM_DMA_MIRROR_MASK + 1

\* A trigger runs count / 8 iterations, each one copy in the direction of the dir
\* bit, leaves count 0 and dir as it was, and leaves each address 8 k past its
\* start reduced to the 64 MiB window; the count it runs with is a multiple of 32.
C6_TriggerStep ==
    IsWrite16(last', AR_DMA_CNT_L) =>
        LET c == TriggerCount(aram_dma.Cnt.count, last'.val)
        IN  /\ c % 32 = 0
            /\ Copies(xfer') = c \div 8
            /\ \A n \in 1..Len(xfer') :
                  (xfer'[n].to = "mram") <=> (aram_dma.Cnt.dir = 1)
            /\ aram_dma'.Cnt = [count |-> 0, dir |-> aram_dma.Cnt.dir]
            /\ aram_dma'.MMAddr = (aram_dma.MMAddr % Window) + c
            /\ aram_dma'.ARAddr = (aram_dma.ARAddr % Window) + c

\* C6 (amended): a write to count-low leaves a count that is a multiple of 32 (a
\* write of 16 leaves 0); the trigger then runs exactly count / 8 chunk iterations
\* in either direction and backing mode, the count ends at 0 with dir unchanged,
\* and each address ends at its start masked to the 64 MiB window plus the count,
\* which is not masked again and can be 0x4000000 or more.
C6_Amended ==
    [][C6_TriggerStep]_vars

\* A transfer of 32 bytes from the top of the window ends one past the window.
C6_Witness ==
    /\ IsWrite16(last, AR_DMA_CNT_L) /\ last.val = 32
    /\ Copies(xfer) = 4
    /\ aram_dma.ARAddr = Window
    /\ aram_dma.Cnt.count = 0

\* C6 (as stated): the final addresses are start + 8 k masked to the window, and a
\* trigger with 16 written, dir = 0, mm_addr = 0x2000 and ar_addr = 0 gives two
\* copies and a final ar_addr of 0x10.
C6_Original ==
    [][IsWrite16(last', AR_DMA_CNT_L) =>
          LET c == TriggerCount(aram_dma.Cnt.count, last'.val)
          IN  /\ Copies(xfer') = c \div 8
              /\ aram_dma'.Cnt = [count |-> 0, dir |-> aram_dma.Cnt.dir]
              /\ aram_dma'.MMAddr = (aram_dma.MMAddr + c) % Window
              /\ aram_dma'.ARAddr = (aram_dma.ARAddr + c) % Window
              /\ (/\ last'.val = 16 /\ aram_dma.Cnt = [count |-> 0, dir |-> 0]
                  /\ aram_dma.MMAddr = 8192 /\ aram_dma.ARAddr = 0)
                 => (Copies(xfer') = 2 /\ aram_dma'.ARAddr = 16)]_vars

\* The completion a trigger schedules.
ARAMEvent(count) ==
    [cb |-> "ARAMint", userdata |-> 0, due |-> (count \div 32) * 246]

C7_TriggerStep ==
    IsWrite16(last', AR_DMA_CNT_L) =>
        /\ Get(dsp_control', DMAState) = 1
        /\ Get(dsp_control', ARAM) = Get(dsp_control, ARAM)
        /\ events' = Append(events, ARAMEvent(TriggerCount(aram_dma.Cnt.count, last'.val)))

\* Only the completion callback sets ARAM pending, and it clears DMA-in-progress;
\* nothing else clears DMA-in-progress but a hard reset of the device.
C7_CompletionStep ==
    /\ last'.op = "ARAMint" =>
          (Get(dsp_control', ARAM) = 1 /\ Get(dsp_control', DMAState) = 0)
    /\ (Get(dsp_control, ARAM) = 0 /\ Get(dsp_control', ARAM) = 1) =>
          last'.op = "ARAMint"
    /\ (Get(dsp_control, DMAState) = 1 /\ Get(dsp_control', DMAState) = 0) =>
          last'.op \in {"ARAMint", "reinit"}

\* A trigger with 0 written while the count's high half is 0: delay 0, no iteration.
ZeroTrigger ==
    /\ IsWrite16(last, AR_DMA_CNT_L) /\ last.val = 0
    /\ xfer = << >>
    /\ Completions(events) > 0

IsWrite32(op, addr) == op.op = "write32" /\ op.addr = addr

IsRead32(op, addr) == op.op = "read32" /\ op.addr = addr

\* A 32-bit write at 0x5020 stores the high half under the 0x03ff mask and the low
\* half 32-byte aligned; at 0x5008 its low half is a control-register write; at
\* 0x5028 the high half stages dir and the count's high bits and the low half then
\* starts one transfer with them.
C8_WriteStep ==
    /\ IsWrite32(last', AR_DMA_MMADDR_H) =>
          /\ aram_dma'.MMAddr =
                 (last'.val % 1024) * 65536 + (last'.lo - (last'.lo % 32))
          /\ aram_dma'.ARAddr = aram_dma.ARAddr /\ aram_dma'.Cnt = aram_dma.Cnt
          /\ events' = events
    /\ IsWrite32(last', 20488) =>
          /\ \A m \in {AID_mask, ARAM_mask, DSP_mask} :
                Get(dsp_control', m) = Get(last'.lo, m)
          /\ \A f \in {AID, ARAM, DSP} :
                Get(dsp_control', f) =
                    IF Get(last'.lo, f) = 1 THEN 0 ELSE Get(dsp_control, f)
          /\ aram_dma' = aram_dma
    /\ IsWrite32(last', AR_DMA_CNT_H) =>
          LET dir == last'.val \div 32768
              c == (last'.val % 1024) * 65536 + (last'.lo - (last'.lo % 32))
          IN  /\ aram_dma'.Cnt = [count |-> 0, dir |-> dir]
              /\ Copies(xfer') = c \div 8
              /\ \A n \in 1..Len(xfer') : (xfer'[n].to = "mram") <=> (dir = 1)
              /\ events' = Append(events, ARAMEvent(c))
              /\ transfers' = transfers + 1
              /\ Get(dsp_control', DMAState) = 1

\* A 32-bit read returns the 16-bit register at i as its high half and the one at
\* i + 2 as its low half, with the effect of the two 16-bit reads in that order.
C8_ReadStep ==
    /\ IsRead32(last', AR_DMA_MMADDR_H) =>
          /\ last'.ret * 65536 + last'.retlo = aram_dma.MMAddr
          /\ last'.retlo < 65536
          /\ World' = World
    /\ IsRead32(last', AR_DMA_CNT_H) =>
          /\ last'.ret = aram_dma.Cnt.dir * 32768 + aram_dma.Cnt.count \div 65536
          /\ last'.retlo = aram_dma.Cnt.count % 65536
          /\ World' = World
    /\ IsRead32(last', DSP_MAIL_FROM_DSP_HI) =>
          /\ dsp_slice' = IF dsp_slice > 72 /\ is_lle THEN dsp_slice - 72 ELSE dsp_slice
          /\ World' = [World EXCEPT !.dsp_slice = dsp_slice']

\* C8: a 32-bit read or write at offset i has the result and the effect of the
\* 16-bit access at i (high half) followed by the one at i + 2 (low half); a 32-bit
\* write to the ARAM count register at 0x5028 stages dir and count-high first and
\* then triggers exactly one transfer that uses the newly written dir and count.
C8_SplitAccess ==
    [][C8_WriteStep /\ C8_ReadStep]_vars

\* One 32-bit write at 0x5028 set dir = 1 and ran a transfer of 64 bytes into main
\* memory, although dir was 0 and the count 0 before it.
C8_Witness ==
    /\ IsWrite32(last, AR_DMA_CNT_H) /\ last.val = 64512 /\ last.lo = 95
    /\ aram_dma.Cnt = [count |-> 0, dir |-> 1]
    /\ Copies(xfer) = 8 /\ xfer[1].to = "mram"
    /\ Get(dsp_control, DMAState) = 1

WriteProtected ==
    { AR_MODE, DSP_MAIL_FROM_DSP_HI, DSP_MAIL_FROM_DSP_LO, AUDIO_DMA_BLOCKS_LEFT }

\* 32-bit offsets whose two halves are both write-protected or unregistered.
WriteProtected32 == { DSP_MAIL_FROM_DSP_HI, 20500, 20536 }

\* C9: a write of any value to the aux-RAM mode register 0x5016, to a DSP-to-CPU
\* mailbox half 0x5004 / 0x5006 or to the blocks-remaining register 0x503A is
\* discarded: every field of the device state, the interrupt line and the
\* scheduled events included, is as before.
C9_DiscardedWrites ==
    [][(\/ last'.op = "write16" /\ last'.addr \in WriteProtected
        \/ last'.op = "write32" /\ last'.addr \in WriteProtected32)
       => World' = World]_vars

\* 0xffff was written to the mode register while the interrupt line was asserted
\* and a completion was scheduled: the mode still reads 1.
C9_Witness ==
    /\ IsWrite16(last, AR_MODE) /\ last.val = 65535
    /\ aram_mode = 1
    /\ interrupt
    /\ events # << >>

\* A control write with bit 0 set clears the Audio DMA control word; one with bit 0
\* clear leaves it alone.
C10_ControlStep ==
    IsWrite16(last', DSP_CONTROL) =>
        audio_dma'.AudioDMAControl =
            IF last'.val % 2 = 1 THEN 0 ELSE audio_dma.AudioDMAControl

\* While Enable is 0 a tick changes neither the counter, the cursor, the pending
\* bits nor the line, and only a write to 0x5036 sets Enable again.
C10_IdleStep ==
    /\ (last'.op = "tick" /\ audio_dma.AudioDMAControl < 32768) =>
          /\ audio_dma' = audio_dma
          /\ dsp_control' = dsp_control
          /\ interrupt' = interrupt
    /\ (audio_dma.AudioDMAControl < 32768 /\ audio_dma'.AudioDMAControl >= 32768) =>
          IsWrite16(last', AUDIO_DMA_CONTROL_LEN)

\* C10: a control-register write with the reset bit set clears the whole Audio DMA
\* control register, so the engine is idle afterwards: ticks neither decrement the
\* counter nor raise AID until a write re-arms it; a control write with the reset
\* bit clear leaves the Audio DMA control register unchanged.
C10_ResetDisablesAudioDMA ==
    [][C10_ControlStep /\ C10_IdleStep]_vars

\* A reset has just stopped a transfer of three blocks after its first tick.
C10_Witness ==
    /\ IsWrite16(last, DSP_CONTROL) /\ last.val = 1
    /\ audio_dma.AudioDMAControl = 0
    /\ audio_dma.remaining_blocks_count = 2
    /\ audio_dma.current_source_address = audio_dma.SourceAddress + 32

\* ------------------------------------------------------------ stale events
\* C11: a callback scheduled before a Reinit and fired after it (the ARAM
\* completion, the AID arming event, a DSP-engine request) is a no-op: the control
\* register and the interrupt line stay as the reset left them. An event that fires
\* in the step after a Reinit was scheduled before it.
C11_StaleCallbacks ==
    [][(last.op = "reinit" /\ last'.op \in {"ARAMint", "DSPint"}) =>
          (dsp_control' = dsp_control /\ interrupt' = interrupt)]_vars

\* ------------------------------------------------- DSP-engine requests
\* The DSP engine requests each of the three interrupts 246 cycles ahead while the
\* CPU enables all three, acknowledges all three, or disables them.
NextRequest ==
    \/ DSPEmuInterrupt({INT_DSP, INT_ARAM, INT_AID}, {ARAM_TICKS_PER_32_BYTES})
    \/ CpuWrite16({ <<DSP_CONTROL, v>> : v \in {0, 168, 336} }, {0})
    \/ FireEvent

SpecRequest == Init /\ [][NextRequest]_vars

\* CoreTiming runs every scheduled event once its time has come.
FairSpecRequest == SpecRequest /\ WF_vars(FireEvent)

\* A request of the given type waits in CoreTiming's queue.
Requested(type) ==
    \E i \in 1..Len(events) : events[i].cb = "DSPint" /\ events[i].userdata = type

\* The request only appends its event; a pending bit goes from 0 to 1 only in the
\* step that fires an event, which keeps every other bit of the register; a
\* control write takes no request out of the queue.
C12_Step ==
    /\ last'.op = "emu_request" =>
          /\ dsp_control' = dsp_control
          /\ interrupt' = interrupt
          /\ events' = Append(events, [cb |-> "DSPint", userdata |-> last'.val,
                                       due |-> last'.lo])
    /\ \A f \in {AID, ARAM, DSP} :
          (Get(dsp_control, f) = 0 /\ Get(dsp_control', f) = 1) =>
              /\ last'.op = "DSPint"
              /\ last'.val = f[1]
              /\ dsp_control' = dsp_control + f[1]
    /\ IsWrite16(last', DSP_CONTROL) => events' = events

\* C12: a DSP-engine interrupt request never changes the control register, it only
\* schedules the event; the pending bit is set when the event fires, no write or
\* request is lost in any interleaving with control writes, and every requested
\* bit is eventually set.
C12_EngineRequest ==
    /\ [][C12_Step]_vars
    /\ \A type \in {INT_DSP, INT_ARAM, INT_AID} :
          Requested(type) ~>
              (last.op = "DSPint" /\ last.val = type /\ BitAnd(dsp_control, type) = type)

\* A DSP request has fired after the CPU enabled its mask; an ARAM request waits.
C12_Witness ==
    /\ last.op = "DSPint" /\ last.val = INT_DSP
    /\ Get(dsp_control, DSP) = 1 /\ Get(dsp_control, DSP_mask) = 1
    /\ interrupt
    /\ Requested(INT_ARAM)

\* ------------------------------------------------------- the padding bits
\* Control writes with every value of the four padding bits, with and without the
\* enable bits, control reads while the DSP engine returns no bit or every bit, and
\* resets.
PaddingWrites ==
    { <<DSP_CONTROL, 4096 * k + m>> : k \in 0..15, m \in {0, 336} }

NextPadding ==
    \/ CpuWrite16(PaddingWrites, {0, 65535})
    \/ CpuRead16({DSP_CONTROL}, {0, 65535})
    \/ DoReinit({FALSE}, {FALSE})

SpecPadding == Init /\ [][NextPadding]_vars

\* The claim as stated: every control-register read returns 0 in bits 12 to 15.
C13_Original ==
    [][IsRead16(last', DSP_CONTROL) => last'.ret \div 4096 = 0]_vars

\* C13 (amended): the padding bits read back as the last control-register write
\* stored them: a write stores bits 12 to 15 of the written value, whatever the DSP
\* engine returns; a read returns the stored bits; a reset clears them; so they read
\* zero only as long as no write set them.
C13_Amended ==
    [][/\ IsWrite16(last', DSP_CONTROL) => Get(dsp_control', pad) = last'.val \div 4096
       /\ IsRead16(last', DSP_CONTROL) =>
             /\ last'.ret \div 4096 = Get(dsp_control, pad)
             /\ dsp_control' = dsp_control
       /\ last'.op = "reinit" => Get(dsp_control', pad) = 0]_vars

\* A read has returned all four padding bits after a write that set them.
C13_Witness ==
    /\ IsRead16(last, DSP_CONTROL)
    /\ last.ret \div 4096 = 15
    /\ Get(dsp_control, pad) = 15

\* ------------------------------------------------------------- save states
\* In either console mode: the interrupt masks, the descriptor and the refresh
\* register are written, an Audio DMA of two blocks is armed and ticked (the tick
\* that ends it sets the AID bit of the control register), ARAM DMAs of 32 bytes
\* copy main memory to the backing buffer (and set the DMA-state bit), and a save
\* state is written and loaded at any point.
StateWrites ==
    { <<DSP_CONTROL, 336>>, <<AR_INFO, 3>>, <<AR_REFRESH, 5>>,
      <<AUDIO_DMA_CONTROL_LEN, 32770>>, <<AR_DMA_CNT_L, 32>> }

NextState ==
    \/ CpuWrite16(StateWrites, {0})
    \/ Tick
    \/ DoSave
    \/ DoLoad

InitState == InitWith({FALSE, TRUE}, {FALSE})

SpecState == InitState /\ [][NextState]_vars

\* C14: writing a save state changes nothing, and loading it gives back the state
\* that was saved: the control register, both DMA blocks with the audio cursor and
\* the remaining counter, the descriptor, mode-status and refresh registers, and in
\* standalone mode the contents of the backing buffer; in aliased mode the stream
\* holds no buffer and the load leaves the buffer as it is.
C14_RoundTrip ==
    [][/\ last'.op = "save" =>
             /\ World' = World
             /\ Len(saved'.stream) = IF aram.wii_mode THEN 8 ELSE 9
       /\ last'.op = "load" =>
             /\ dsp_control' = snapshot.dsp_control
             /\ audio_dma' = snapshot.audio_dma
             /\ aram_dma' = snapshot.aram_dma
             /\ aram_info' = snapshot.aram_info
             /\ aram_mode' = snapshot.aram_mode
             /\ aram_refresh' = snapshot.aram_refresh
             /\ last'.ret = 0
             /\ aram' = aram
             /\ IF aram.wii_mode
                THEN mem' = mem
                ELSE /\ mem'.aram = snapshot.mem.aram
                     /\ mem'.mram = mem.mram]_vars

\* A load in standalone mode has just brought back a buffer and registers that
\* differed from the current ones: the saved state had an armed Audio DMA in its
\* second block and an untouched buffer.
C14_Witness ==
    /\ last.op = "load"
    /\ ~aram.wii_mode
    /\ snapshot.mem.aram = << >> /\ mem.aram = << >>
    /\ audio_dma.remaining_blocks_count = 1
    /\ aram_dma.ARAddr = 0
    /\ transfers > 0

\* -------------------------------------------------------------- lifecycle
\* The device runs until Shutdown and runs again after the next Init.
Running == last.op # "shutdown"

\* The descriptor, the refresh register and the Audio DMA source address are
\* written, an ARAM DMA of 32 bytes is triggered.
LifecycleWrites ==
    { <<AR_INFO, 3>>, <<AR_REFRESH, 5>>, <<AUDIO_DMA_START_LO, 64>>,
      <<AR_DMA_CNT_L, 32>> }

\* A running device has its registers written, its events fired, and is reset
\* into either console mode; it is shut down and initialised again in either mode.
NextLifecycle ==
    \/ Running /\ CpuWrite16(LifecycleWrites, {0})
    \/ Running /\ FireEvent
    \/ Running /\ DoReinit({FALSE, TRUE}, {FALSE})
    \/ DoShutdown
    \/ DoInit({FALSE, TRUE}, {FALSE})

SpecLifecycle == InitState /\ [][NextLifecycle]_vars

\* The DMA blocks are zero and the control register has the halt bit only.
ResetBlocks ==
    /\ dsp_control = 4
    /\ audio_dma = [current_source_address |-> 0, remaining_blocks_count |-> 0,
                    SourceAddress |-> 0, AudioDMAControl |-> 0]
    /\ aram_dma = [MMAddr |-> 0, ARAddr |-> 0, Cnt |-> [count |-> 0, dir |-> 0]]
    /\ aram_info = 0

\* The claim as stated: after init or reinit the mode-status and refresh registers
\* are zero like the others.
C15_Original ==
    last.op \in {"init", "reinit"} =>
        (ResetBlocks /\ aram_mode = 0 /\ aram_refresh = 0)

\* C15 (amended): after init or reinit the control register reads as halt only,
\* both DMA blocks and the descriptor are zero, the mode-status register is 1 and
\* the refresh register is 156.
C15_Amended ==
    last.op \in {"init", "reinit"} =>
        (ResetBlocks /\ aram_mode = 1 /\ aram_refresh = 156)

\* A reset has just happened on a device with an ARAM DMA done and its completion
\* still scheduled.
C15_Witness ==
    /\ last.op = "reinit"
    /\ events # << >>
    /\ mem.aram = << >> /\ mem.exram # << >>
    /\ ResetBlocks

\* C16: a Reinit obtains a new backing buffer only if the console mode changed (a
\* standalone device reset in standalone mode keeps its buffer), at most one
\* private buffer is live at any time, and Shutdown releases every private buffer.
C16_BufferOwnership ==
    /\ [][(last'.op = "reinit" /\ ~aram.wii_mode /\ ~aram'.wii_mode) =>
              (aram'.ptr = aram.ptr /\ pages' = pages)]_vars
    /\ [](Cardinality(pages.live) <= 1)
    /\ [](last.op = "shutdown" => pages.live = {})

\* ------------------------------------------------- reloads of the counter
\* The claim as stated: the counter goes up only in a step that finds Enable set
\* and the counter at zero (a tick that consumes the last block, or a write that
\* finds the counter at zero).
C17_Original ==
    [][audio_dma'.remaining_blocks_count > audio_dma.remaining_blocks_count =>
          /\ AudioEnable(audio_dma'.AudioDMAControl) = 1
          /\ \/ last'.op = "tick" /\ audio_dma.remaining_blocks_count <= 1
             \/ audio_dma.remaining_blocks_count = 0]_vars

\* C17 (amended): the remaining-block counter changes in four kinds of step only:
\* a tick with Enable set and more than one block left decrements it; a tick with
\* Enable set that consumes the last block (or finds none) reloads it from the
\* block count; a control/length write that changes Enable from 0 to 1 loads it
\* from the written block count, whatever its value was (so disabling and enabling
\* again in the middle of a transfer does reload it); a reset zeroes it.
C17_Amended ==
    [][audio_dma'.remaining_blocks_count # audio_dma.remaining_blocks_count =>
          \/ /\ last'.op = "tick"
             /\ AudioEnable(audio_dma.AudioDMAControl) = 1
             /\ IF audio_dma.remaining_blocks_count >= 2
                THEN audio_dma'.remaining_blocks_count =
                         audio_dma.remaining_blocks_count - 1
                ELSE audio_dma'.remaining_blocks_count =
                         AudioNumBlocks(audio_dma.AudioDMAControl)
          \/ /\ IsWrite16(last', AUDIO_DMA_CONTROL_LEN)
             /\ AudioEnable(audio_dma.AudioDMAControl) = 0
             /\ AudioEnable(last'.val) = 1
             /\ audio_dma'.remaining_blocks_count = AudioNumBlocks(last'.val)
          \/ /\ last'.op = "reinit"
             /\ audio_dma'.remaining_blocks_count = 0]_vars

\* The engine has been armed with three blocks a second time while the event of
\* its first arming is still scheduled: the counter and the cursor are loaded.
C17_Witness ==
    /\ IsWrite16(last, AUDIO_DMA_CONTROL_LEN) /\ last.val = 32771
    /\ events = << AIDEvent, AIDEvent >>
    /\ audio_dma.remaining_blocks_count = 3
    /\ audio_dma.current_source_address = audio_dma.SourceAddress
    /\ audio_dma.SourceAddress = 4096

\* -------------------------------------------------------------- alignment
\* 16-bit writes with low bits set to the low halves of the main-memory address and
\* of the Audio DMA source address; the count's high half takes the direction bit
\* only, so that a transfer stays short.
AlignWrites16 ==
    { <<AR_DMA_MMADDR_L, 65535>>, <<AUDIO_DMA_START_LO, 4127>>,
      <<AR_DMA_CNT_H, 32768>> }

\* 32-bit writes to the aux-RAM address and to the Audio DMA source address with
\* bits outside the write masks set in both halves.
AlignWrites32 ==
    { <<AR_DMA_ARADDR_H, 1025, 65535>>, <<AUDIO_DMA_START_HI, 8193, 7>> }

\* A trigger with 63 written to count-low; an arming with two blocks.
AlignTriggers ==
    { <<AR_DMA_CNT_L, 63>>, <<AUDIO_DMA_CONTROL_LEN, 32770>> }

NextAlign ==
    \/ CpuWrite16(AlignWrites16, {0})
    \/ CpuWrite32(AlignWrites32, {0})
    \/ CpuWrite16(AlignTriggers, {0})
    \/ Tick

SpecAlign == Init /\ [][NextAlign]_vars

\* C18: in every reachable state the two ARAM DMA addresses, the Audio DMA source
\* address and the audio cursor are multiples of 32 and the ARAM count is a
\* multiple of 8, whatever 16-bit and 32-bit values are written to the registers.
C18_Alignment ==
    /\ aram_dma.MMAddr % 32 = 0
    /\ aram_dma.ARAddr % 32 = 0
    /\ audio_dma.SourceAddress % 32 = 0
    /\ audio_dma.current_source_address % 32 = 0
    /\ aram_dma.Cnt.count % 8 = 0

\* After writes with low bits set and a tick: the source address is 0x1000, the
\* cursor one block further, and an ARAM DMA has moved 32 bytes to the aux-RAM
\* address written as 0x0401ffff.
C18_Witness ==
    /\ audio_dma.SourceAddress = 4096
    /\ audio_dma.current_source_address = 4128
    /\ aram_dma.ARAddr = 65536 + 65504 + 32
    /\ aram_dma.MMAddr = 65504 + 32
    /\ transfers = 1

\* ------------------------------------------------------- the descriptor tag
\* The tags compared: 3, 4 and another value.
Tags == {0, 3, 4}

\* The state with the low four bits of the descriptor register replaced.
WithTag(w, tag) == [w EXCEPT !.aram_info = (@ - (@ % 16)) + tag]

\* What a trigger leaves apart from the descriptor and the backing buffer.
Neutral(w) ==
    [w EXCEPT !.aram_info = 0, !.xfer = << >>, !.mem[Buffer(w.aram)] = << >>]

\* The backing-buffer words a transfer of n bytes to aux-RAM address start writes a
\* second time, 4 MiB up, under tag 4: target address and main-memory source.
MirrorTargets(w, start, mm, n) ==
    { [at |-> BitAnd(start + 8 * k + 4194304, w.aram.mask), mm |-> mm + 8 * k] :
        k \in { j \in 0..((n \div 8) - 1) : start + 8 * j < 4194304 } }

\* The trigger of the step as it would run from the state with each tag.
SameForTags(r0, r3, r4) ==
    /\ r0.mem = r3.mem /\ r0.aram_dma = r3.aram_dma
    /\ r4.mem = r3.mem /\ r4.aram_dma = r3.aram_dma

MirroredForTag4(w, r3, r4, T) ==
    /\ DOMAIN r4.mem[Buffer(w.aram)] =
          DOMAIN r3.mem[Buffer(w.aram)] \cup { t.at : t \in T }
    /\ \A a \in DOMAIN r3.mem[Buffer(w.aram)] \ { t.at : t \in T } :
          r4.mem[Buffer(w.aram)][a] = r3.mem[Buffer(w.aram)][a]
    /\ \A t \in T : r4.mem[Buffer(w.aram)][t.at] = Word("mram", w.mem.mram, t.mm)

DependsOnTagOnlyByMirror(w, val, r0, r3, r4) ==
    /\ Neutral(r0) = Neutral(r3) /\ Neutral(r4) = Neutral(r3)
    /\ r0.mem = r3.mem
    /\ IF w.aram_dma.Cnt.dir = 0
          /\ BitAnd(w.aram_dma.ARAddr, ARAM_DMA_MIRROR_MASK) < w.aram.size
       THEN MirroredForTag4(w, r3, r4,
                MirrorTargets(w, BitAnd(w.aram_dma.ARAddr, ARAM_DMA_MIRROR_MASK),
                              BitAnd(w.aram_dma.MMAddr, ARAM_DMA_MIRROR_MASK),
                              TriggerCount(w.aram_dma.Cnt.count, val)))
       ELSE r4.mem = r3.mem

AccessorAddresses == {256, 268435456 + 256, 16777216 + 256, 268435456 + 7}

NextAccessor ==
    \/ DoWriteARAM({165, 90}, AccessorAddresses)
    \/ DoReadARAM(AccessorAddresses)
    \/ DoReinit({FALSE, TRUE}, {FALSE})

SpecAccessor == InitState /\ [][NextAccessor]_vars

\* C20: reads and writes of the byte accessor take the same route in either mode,
\* so a byte written at an address is the byte read back from it: a read returns
\* the value of the last write to its address, and right after WriteARAM(v, a) a
\* read of a gives v.
C20_ByteAccessor ==
    [][/\ last'.op = "WriteARAM" => ReadARAM(World', last'.addr) = last'.val
       /\ (last.op = "WriteARAM" /\ last'.op = "ReadARAM" /\ last'.addr = last.addr) =>
             last'.ret = last.val]_vars

\* ------------------------------------------------ the DMA-in-progress flag
\* C21: in every reachable state the DMA-in-progress flag of the control register
\* is 1 iff at least one ARAM completion is still outstanding in the scheduler;
\* with two transfers triggered back to back the flag stays 1 until the last
\* completion has fired.
C21_DMAInProgress ==
    (Get(dsp_control, DMAState) = 1) <=> (Completions(events) > 0)

\* ------------------------------------------------------- the pending bits
\* Control writes with bit 9 clear and set: acknowledge all, bit 9 with the ARAM
\* acknowledge.
PendingControlWrites ==
    { <<DSP_CONTROL, v>> : v \in {168, 544} }

\* In aliased mode, where a reset allocates no buffer: the control writes, an Audio
\* DMA of one block armed (its arming event scheduled) and ticked, ARAM DMAs of
\* length 0, the scheduler, a reset, and a save state written and loaded at any
\* point.
NextPending ==
    \/ CpuWrite16(PendingControlWrites, {4})
    \/ CpuWrite16({ <<AUDIO_DMA_CONTROL_LEN, 32769>> }, {0})
    \/ CpuWrite16({ <<AR_DMA_CNT_L, 0>> }, {0})
    \/ Tick
    \/ FireEvent
    \/ DoReinit({TRUE}, {FALSE})
    \/ DoSave
    \/ DoLoad

SpecPending == InitWith({TRUE}, {FALSE}) /\ [][NextPending]_vars

\* The step went through GenerateDSPInterrupt for the source with pending bit f: a
\* fired generate-interrupt event of that source, the ARAM completion, or an audio
\* tick that reloaded the block counter.
Generated(f) ==
    \/ last'.op = "DSPint" /\ Get(last'.val, f) = 1
    \/ last'.op = "ARAMint" /\ f = ARAM
    \/ /\ last'.op = "tick" /\ f = AID
       /\ AudioEnable(audio_dma.AudioDMAControl) = 1
       /\ audio_dma.remaining_blocks_count <= 1

\* A control write leaves the DMA-state bit alone and sets no pending bit.
C22_WriteFrame ==
    IsWrite16(last', DSP_CONTROL) =>
        /\ Get(dsp_control', DMAState) = Get(dsp_control, DMAState)
        /\ \A f \in {AID, ARAM, DSP} : Get(dsp_control', f) <= Get(dsp_control, f)

\* A pending bit that was set is cleared only by a control write with that bit
\* set, a reset or a state restore.
C22_ClearedOnlyBy ==
    \A f \in {AID, ARAM, DSP} :
        (Get(dsp_control, f) = 1 /\ Get(dsp_control', f) = 0) =>
            \/ IsWrite16(last', DSP_CONTROL) /\ Get(last'.val, f) = 1
            \/ last'.op \in {"reinit", "load"}

\* C22 as stated: a control-register write never sets a pending bit and never
\* changes the DMA-in-progress flag, whatever value is written; pending bits are
\* set only by the generate-interrupt path (tick reload, ARAM completion, scheduled
\* events) and, once set, stay set until a control write with that bit set or a
\* reset or state restore.
C22_Original ==
    [][/\ C22_WriteFrame
       /\ C22_ClearedOnlyBy
       /\ \A f \in {AID, ARAM, DSP} :
             (Get(dsp_control, f) = 0 /\ Get(dsp_control', f) = 1) => Generated(f)]_vars

\* C22 amended: as stated, except that a pending bit is also set by a state restore
\* whose saved control register has the bit set.
C22_Amended ==
    [][/\ C22_WriteFrame
       /\ C22_ClearedOnlyBy
       /\ \A f \in {AID, ARAM, DSP} :
             (Get(dsp_control, f) = 0 /\ Get(dsp_control', f) = 1) =>
                 \/ Generated(f)
                 \/ last'.op = "load" /\ Get(snapshot.dsp_control, f) = 1]_vars

\* A control write with bit 9 set and the ARAM acknowledge has acted while a DMA was
\* in progress and AID and ARAM were pending: the flag and the AID bit are still
\* set, ARAM is clear.
C22_Witness ==
    /\ IsWrite16(last, DSP_CONTROL) /\ last.val = 544
    /\ Get(dsp_control, DMAState) = 1 /\ Completions(events) > 0
    /\ Get(dsp_control, AID) = 1 /\ Get(dsp_control, ARAM) = 0

\* ------------------------------------------- the interrupt line at all times
\* C23: the interrupt line agrees with the control register in every reachable
\* state, also after a Reinit and after a state restore: the line handed to the
\* CPU interrupt controller is asserted iff some source of DSP, ARAM, AID has both
\* its enable and its pending bit set in the control register.
C23_LineAgrees ==
    interrupt = AnyEnabledPending(dsp_control)

====
